---- MODULE Spec2Model ----
(***************************************************************************)
(* Model of bytesize-rs (src/src/lib.rs): the Display implementation of    *)
(* ByteSize (a u64 shown with SI prefixes and 3 significant digits) and    *)
(* its FromStr implementation (decimal and binary prefixes).               *)
(*                                                                         *)
(* Representation.  TLC's integers are 32 bits wide, so a u64 (and the     *)
(* wider intermediate values of the float arithmetic and of the reference  *)
(* computations) is a sequence of limbs in base 10^6, least significant    *)
(* first, without leading zero limbs; zero is the empty sequence.  Strings *)
(* are sequences of bytes, as the code reads them through as_bytes().      *)
(***************************************************************************)
EXTENDS Integers, Sequences, FiniteSets, TLC

(***************************************************************************)
(* Arithmetic on naturals of any size.                                     *)
(***************************************************************************)

\* the base of the limbs: 10^6
Base == 10^6

SetMax(S) == CHOOSE x \in S : \A y \in S : y <= x

SetMin(S) == CHOOSE x \in S : \A y \in S : x <= y

\* the index of the last limb of a that is not zero, 0 when there is none
TopLimb(a) == SetMax({0} \cup {i \in 1..Len(a) : a[i] # 0})

\* a without its most significant zero limbs
Strip(a) == SubSeq(a, 1, TopLimb(a))

RECURSIVE MulCarry(_, _, _)
MulCarry(a, m, c) ==
    IF a = <<>>
    THEN IF c = 0 THEN <<>> ELSE <<c>>
    ELSE <<(a[1] * m + c) % Base>> \o MulCarry(Tail(a), m, (a[1] * m + c) \div Base)

\* a * m, for m <= 1024
BigMulSmall(a, m) == Strip(MulCarry(a, m, 0))

\* a + c, for c < Base
BigAddSmall(a, c) == Strip(MulCarry(a, 1, c))

RECURSIVE DivStep(_, _, _, _, _)
DivStep(a, d, i, r, q) ==
    IF i = 0 THEN [q |-> Strip(q), r |-> r]
    ELSE DivStep(a, d, i - 1, (r * Base + a[i]) % d, <<(r * Base + a[i]) \div d>> \o q)

\* [q |-> a \div d, r |-> a % d], for d <= 1024 (r is an integer)
BigDivMod(a, d) == DivStep(a, d, Len(a), 0, <<>>)

\* the highest index at which a and b, of the same length, differ; 0 if none
TopDiff(a, b) == SetMax({0} \cup {i \in 1..Len(a) : a[i] # b[i]})

\* a <= b
BigLeq(a, b) ==
    IF Len(a) # Len(b) THEN Len(a) < Len(b)
    ELSE TopDiff(a, b) = 0 \/ a[TopDiff(a, b)] < b[TopDiff(a, b)]

\* a < b
BigLess(a, b) == a # b /\ BigLeq(a, b)

RECURSIVE SubBorrow(_, _, _)
SubBorrow(a, b, c) ==
    IF a = <<>> THEN <<>>
    ELSE IF b = <<>>
    THEN IF a[1] >= c
         THEN <<a[1] - c>> \o SubBorrow(Tail(a), <<>>, 0)
         ELSE <<a[1] + Base - c>> \o SubBorrow(Tail(a), <<>>, 1)
    ELSE IF a[1] >= b[1] + c
         THEN <<a[1] - b[1] - c>> \o SubBorrow(Tail(a), Tail(b), 0)
         ELSE <<a[1] + Base - b[1] - c>> \o SubBorrow(Tail(a), Tail(b), 1)

\* a - b, for a >= b
BigSub(a, b) == Strip(SubBorrow(a, b, 0))

\* the integer x, 0 <= x < Base, as a natural
BigOfInt(x) == IF x = 0 THEN <<>> ELSE <<x>>

\* a natural below Base, as an integer
BigToInt(a) == IF a = <<>> THEN 0 ELSE a[1]

RECURSIVE BigTimesPow(_, _, _)
\* a * m^k, for m <= 1024
BigTimesPow(a, m, k) == IF k = 0 THEN a ELSE BigTimesPow(BigMulSmall(a, m), m, k - 1)

\* a * 2^k
BigTimesPow2(a, k) == BigTimesPow(BigTimesPow(a, 1024, k \div 10), 2, k % 10)

\* the 6 * Len(a) decimal digits of the limbs of a, most significant first
LimbDigits(a) ==
    [i \in 1..(6 * Len(a)) |-> (a[Len(a) - ((i - 1) \div 6)] \div 10^(5 - ((i - 1) % 6))) % 10]

\* ds without its leading zeros
DropZeros(ds) ==
    SubSeq(ds, SetMin({Len(ds) + 1} \cup {i \in 1..Len(ds) : ds[i] # 0}), Len(ds))

\* the decimal digits of a, most significant first; none for zero
ToDigits(a) == DropZeros(LimbDigits(a))

\* the digit of ds at i, 0 before the first
DigitAt(ds, i) == IF i >= 1 THEN ds[i] ELSE 0

\* the natural whose decimal digits, most significant first, are ds
Big(ds) ==
    Strip([l \in 1..((Len(ds) + 5) \div 6) |->
             DigitAt(ds, Len(ds) - 6 * (l - 1))
             + 10 * DigitAt(ds, Len(ds) - 6 * (l - 1) - 1)
             + 100 * DigitAt(ds, Len(ds) - 6 * (l - 1) - 2)
             + 1000 * DigitAt(ds, Len(ds) - 6 * (l - 1) - 3)
             + 10000 * DigitAt(ds, Len(ds) - 6 * (l - 1) - 4)
             + 100000 * DigitAt(ds, Len(ds) - 6 * (l - 1) - 5)])

\* u64::MAX = 2^64 - 1 = 18 446744 073709 551615
U64Max == <<551615, 73709, 446744, 18>>

\* 2^64
TwoTo64 == <<551616, 73709, 446744, 18>>

(***************************************************************************)
(* Bytes: the byte literals of the code.                                   *)
(***************************************************************************)

\* b'0'
Byte0 == 48

\* b'5'
Byte5 == 53

\* b'9'
Byte9 == 57

\* b'.'
BytePoint == 46

\* b' '
ByteSpace == 32

\* b'\t'
ByteTab == 9

\* b'b'
Byte_b == 98

\* b'B'
Byte_B == 66

\* b"i"
Byte_i == 105

\* b"I"
Byte_I == 73

\* b'K', b'M', b'G', b'T', b'P', b'E', b'Z', b'Y'
Byte_K == 75

Byte_M == 77

Byte_G == 71

Byte_T == 84

Byte_P == 80

Byte_E == 69

Byte_Z == 90

Byte_Y == 89

\* the decimal digits ds as text
Dig(ds) == [i \in 1..Len(ds) |-> Byte0 + ds[i]]

\* "{}" of an unsigned integer: its decimal digits, "0" for zero
Decimal(a) == IF a = <<>> THEN <<Byte0>> ELSE Dig(ToDigits(a))

\* "{:02}" of a u32: at least two digits, padded with zeros on the left
Decimal02(x) == IF x < 10 THEN <<Byte0>> \o Decimal(BigOfInt(x)) ELSE Decimal(BigOfInt(x))

(***************************************************************************)
(* impl fmt::Display for ByteSize                                          *)
(***************************************************************************)

\* const PREFIXES: &'static [u8] = b"kMGTPE"
PREFIXES == <<107, 77, 71, 84, 80, 69>>

\* write!(f, "<body> {}B", PREFIXES[idx] as char): indexing the slice out of
\* bounds panics; idx is the 0-based index the code uses
WritePrefixed(body, idx) ==
    IF idx < Len(PREFIXES)
    THEN [panic |-> FALSE, idx |-> idx,
          text |-> body \o <<ByteSpace, PREFIXES[idx + 1], Byte_B>>]
    ELSE [panic |-> TRUE, idx |-> idx, text |-> <<>>]

\* the locals after the loop: units and millis cast to u32
Locals(units, millis, prefix, is_exact) ==
    [units |-> BigToInt(units), millis |-> millis, prefix |-> prefix, is_exact |-> is_exact]

RECURSIVE LoopLate(_, _, _)
\* Loop leaving one value too late (units <= 1000)
LoopLate(dm, prefix, is_exact) ==
    IF BigLeq(dm.q, <<1000>>)
    THEN Locals(dm.q, dm.r, prefix, is_exact)
    ELSE LoopLate(BigDivMod(dm.q, 1000), prefix + 1, is_exact /\ ~(dm.r > 0))

RECURSIVE Loop(_, _, _)
\* one iteration of the loop, dm holding units / 1000 and units % 1000:
\* millis = units % 1000; units /= 1000; if units < 1000 { break; }
\* if millis > 0 { is_exact = false; } prefix += 1;
Loop(dm, prefix, is_exact) ==
    IF BigLess(dm.q, <<1000>>)
    THEN Locals(dm.q, dm.r, prefix, is_exact)
    ELSE Loop(BigDivMod(dm.q, 1000), prefix + 1, is_exact /\ ~(dm.r > 0))

\* the loop, entered with prefix = 0, units = size, is_exact = true
DivLoop(size) == Loop(BigDivMod(size, 1000), 0, TRUE)

\* the carry of a rounded fraction: frac == limit resets frac and increments units
Carry(units, frac, limit) ==
    IF frac = limit THEN [units |-> units + 1, frac |-> 0] ELSE [units |-> units, frac |-> frac]

\* "10.0 {}B" when units reaches 10, else "{}.{:02} {}B"
WriteOneDigit(c, prefix) ==
    IF c.units = 10
    THEN WritePrefixed(<<49, 48, 46, 48>>, prefix)
    ELSE WritePrefixed(Decimal(BigOfInt(c.units)) \o <<BytePoint>> \o Decimal02(c.frac), prefix)

\* FmtOneDigit breaking every tie to even, whatever the loop discarded
FmtOneDigitNoExact(l) ==
    IF l.millis % 10 > 5 \/ (l.millis % 10 = 5 /\ ((l.millis \div 10) % 2) # 0)
    THEN WriteOneDigit(Carry(l.units, l.millis \div 10 + 1, 100), l.prefix)
    ELSE WriteOneDigit(Carry(l.units, l.millis \div 10, 100), l.prefix)

\* units < 10: 1 digit before the decimal point, frac = millis / 10 and
\* rem = millis % 10
FmtOneDigit(l) ==
    IF l.millis % 10 > 5
       \/ (l.millis % 10 = 5 /\ (((l.millis \div 10) % 2) # 0 \/ ~l.is_exact))
    THEN WriteOneDigit(Carry(l.units, l.millis \div 10 + 1, 100), l.prefix)
    ELSE WriteOneDigit(Carry(l.units, l.millis \div 10, 100), l.prefix)

\* "100 {}B" when units reaches 100, else "{}.{} {}B"
WriteTwoDigits(c, prefix) ==
    IF c.units = 100
    THEN WritePrefixed(<<49, 48, 48>>, prefix)
    ELSE WritePrefixed(Decimal(BigOfInt(c.units)) \o <<BytePoint>> \o Decimal(BigOfInt(c.frac)), prefix)

\* units < 100: 2 digits before the decimal point, frac = millis / 100 and
\* rem = millis % 100
FmtTwoDigits(l) ==
    IF l.millis % 100 > 50
       \/ (l.millis % 100 = 50 /\ (((l.millis \div 100) % 2) # 0 \/ ~l.is_exact))
    THEN WriteTwoDigits(Carry(l.units, l.millis \div 100 + 1, 10), l.prefix)
    ELSE WriteTwoDigits(Carry(l.units, l.millis \div 100, 10), l.prefix)

\* "1.00 {}B" with the next prefix when units reaches 1000, else "{} {}B"
WriteThreeDigits(units, prefix) ==
    IF units >= 1000
    THEN WritePrefixed(<<49, 46, 48, 48>>, prefix + 1)
    ELSE WritePrefixed(Decimal(BigOfInt(units)), prefix)

\* otherwise: 3 digits before the decimal point
FmtThreeDigits(l) ==
    IF l.millis > 500 \/ (l.millis = 500 /\ ((l.units % 2) # 0 \/ ~l.is_exact))
    THEN WriteThreeDigits(l.units + 1, l.prefix)
    ELSE WriteThreeDigits(l.units, l.prefix)

\* the three branches on the units left by the loop
FmtUnits(l) ==
    IF l.units < 10 THEN FmtOneDigit(l)
    ELSE IF l.units < 100 THEN FmtTwoDigits(l)
    ELSE FmtThreeDigits(l)

\* fmt: what is written to the formatter (or the panic of an index out of
\* bounds), with idx the index into PREFIXES that was used (-1: none)
fmt(size) ==
    IF BigLess(size, <<1000>>)
    THEN [panic |-> FALSE, idx |-> -1, text |-> Decimal(size) \o <<ByteSpace, Byte_B>>]
    ELSE FmtUnits(DivLoop(size))

(***************************************************************************)
(* impl FromStr for ByteSize                                               *)
(***************************************************************************)

\* Option::None, for Option<usize> and Option<u32>
None == -1

\* Result<ByteSize, ParseByteSizeError>: kind is "Ok" or the error's name
Ok(v) == [kind |-> "Ok", val |-> v]

Err(e) == [kind |-> e, val |-> <<>>]

\* b'0'..=b'9'
IsDigit(c) == Byte0 <= c /\ c <= Byte9

\* parse_prefix with the bit 0x20 left as it is: upper case only
parse_prefix_cased(pfx) ==
    CASE pfx = Byte_K -> 1
      [] pfx = Byte_M -> 2
      [] pfx = Byte_G -> 3
      [] pfx = Byte_T -> 4
      [] pfx = Byte_P -> 5
      [] pfx = Byte_E -> 6
      [] pfx = Byte_Z -> 7
      [] pfx = Byte_Y -> 8
      [] OTHER -> None

\* fn parse_prefix(pfx: u8) -> Option<u32>: pfx & !0x20 clears bit 5
parse_prefix(pfx) ==
    LET c == IF (pfx \div 32) % 2 = 1 THEN pfx - 32 ELSE pfx
    IN  CASE c = Byte_K -> 1
          [] c = Byte_M -> 2
          [] c = Byte_G -> 3
          [] c = Byte_T -> 4
          [] c = Byte_P -> 5
          [] c = Byte_E -> 6
          [] c = Byte_Z -> 7
          [] c = Byte_Y -> 8
          [] OTHER -> None

RECURSIVE ScanNumber(_, _, _)
\* the first loop of from_str, at the byte of 0-based index n: the result is
\* the early return (invalid) or point and num_end after the loop
ScanNumber(src, n, point) ==
    IF n >= Len(src) THEN [invalid |-> FALSE, point |-> point, num_end |-> Len(src)]
    ELSE IF IsDigit(src[n + 1]) THEN ScanNumber(src, n + 1, point)
    ELSE IF src[n + 1] = BytePoint
    THEN IF point # None
         THEN [invalid |-> TRUE, point |-> point, num_end |-> Len(src)]
         ELSE ScanNumber(src, n + 1, n)
    ELSE [invalid |-> FALSE, point |-> point, num_end |-> n]

\* c != b' ' && c != b'\t'
NotBlank(c) == c # ByteSpace /\ c # ByteTab

\* units.iter().position(..), 1-based; 0 for Option::None
Position(units) == SetMin({Len(units) + 1} \cup {n \in 1..Len(units) : NotBlank(units[n])}) % (Len(units) + 1)

\* None => units, Some(n) => &units[n..]
SkipBlanks(units) ==
    IF Position(units) = 0 THEN units ELSE SubSeq(units, Position(units), Len(units))

\* StripB taking only a lower-case b
StripLowerB(units) ==
    IF units # <<>> /\ units[Len(units)] = Byte_b
    THEN SubSeq(units, 1, Len(units) - 1)
    ELSE units

\* units.split_last(): a last byte b or B is dropped
StripB(units) ==
    IF units # <<>> /\ (units[Len(units)] = Byte_b \/ units[Len(units)] = Byte_B)
    THEN SubSeq(units, 1, Len(units) - 1)
    ELSE units

\* rest == b"i" || rest == b"I"
IsBinary(rest) == rest = <<Byte_i>> \/ rest = <<Byte_I>>

\* "Parse the units": binary and scale, or the InvalidUnits return
ParseUnits(units) ==
    IF units = <<>> THEN [invalid |-> FALSE, binary |-> FALSE, scale |-> 0]
    ELSE IF ~IsBinary(Tail(units)) /\ Tail(units) # <<>>
    THEN [invalid |-> TRUE, binary |-> FALSE, scale |-> 0]
    ELSE IF parse_prefix(Head(units)) = None
    THEN [invalid |-> TRUE, binary |-> IsBinary(Tail(units)), scale |-> 0]
    ELSE [invalid |-> FALSE, binary |-> IsBinary(Tail(units)),
          scale |-> parse_prefix(Head(units))]

(***************************************************************************)
(* The binary branch: f64.  A finite non-negative f64 is [m, e], standing  *)
(* for m * 2^e, with m a natural of at most 53 bits; the exponents the     *)
(* bounded inputs produce are inside the range of the normal numbers of    *)
(* binary64.                                                               *)
(***************************************************************************)

\* (c as u64) & 15 of a digit, for each byte of ds
DigitValues(ds) == [i \in 1..Len(ds) |-> ds[i] % 16]

\* the digits of num, most significant first, as a natural
DigitsValue(num) == Big(DigitValues(SelectSeq(num, IsDigit)))

\* the number of digits of num after its decimal point
FracLen(num, point) == IF point = None THEN 0 ELSE Len(num) - point - 1

\* 2^52 and 2^53: the mantissa of a normal f64 is in [2^52, 2^53)
TwoTo52 == <<370496, 599627, 4503>>

TwoTo53 == <<740992, 199254, 9007>>

Has53Bits(q) == BigLeq(TwoTo52, q) /\ BigLess(q, TwoTo53)

RECURSIVE DivPow(_, _, _, _, _)
\* a / d^k cut off: q the quotient, top the last remainder (the most
\* significant digit of the remainder in base d), sticky whether any earlier
\* remainder was not zero
DivPow(a, d, k, top, sticky) ==
    IF k = 0 THEN [q |-> a, top |-> top, sticky |-> sticky]
    ELSE LET dm == BigDivMod(a, d)
         IN  DivPow(dm.q, d, k - 1, dm.r, sticky \/ top # 0)

\* x / 2^n cut off, after x was cut off
ShiftRest(x, n) == DivPow(x.q, 2, n, 0, x.sticky \/ x.top # 0)

\* a / 2^j cut off: q the quotient, top the last bit shifted out, sticky
\* whether any bit shifted out before it was set
ShiftRight(a, j) ==
    IF j = 0 THEN [q |-> a, top |-> 0, sticky |-> FALSE]
    ELSE ShiftRest(DivPow(a, 1024, (j - 1) \div 10, 0, FALSE), 1 + ((j - 1) % 10))

\* y, the quotient of a shift to the right, with cmp: -1, 0 or 1 as the part
\* cut off is below, at or above one half; low: a digit was cut off before
ShiftedCmp(y, low, s) ==
    [q |-> y.q, s |-> s,
     cmp |-> IF y.top = 0 THEN -1 ELSE IF low \/ y.sticky THEN 1 ELSE 0]

\* x, the quotient by 10^k, shifted to the right when s < 0
Shifted(x, s) ==
    IF s >= 0
    THEN [q |-> x.q, s |-> s,
          cmp |-> IF x.top > 5 \/ (x.top = 5 /\ x.sticky) THEN 1
                  ELSE IF x.top = 5 THEN 0 ELSE -1]
    ELSE ShiftedCmp(ShiftRight(x.q, 0 - s), x.top # 0 \/ x.sticky, s)

\* D * 2^s / 10^k cut off, with what the rounding needs
Scaled(D, k, s) ==
    Shifted(DivPow(BigTimesPow2(D, IF s > 0 THEN s ELSE 0), 10, k, 0, FALSE), s)

\* the shifts s at which D * 2^s / 10^k can have 53 bits, from the number L
\* of decimal digits of its integer part (log2(10) is between 3.321 and
\* 3.322, so 52 - 3.322 * L < s <= 53 - 3.321 * (L - 1))
ShiftRange(L) == (50 - (3322 * L) \div 1000) .. (55 - (3321 * (L - 1)) \div 1000)

\* the shift that gives D * 2^s / 10^k its 53 bits
Shift53(D, k) ==
    CHOOSE s \in ShiftRange(Len(ToDigits(D)) - k) : Has53Bits(Scaled(D, k, s).q)

\* the 53 bits rounded to nearest, ties to even
RoundNearest(x) ==
    [m |-> IF x.cmp > 0 \/ (x.cmp = 0 /\ BigDivMod(x.q, 2).r = 1)
           THEN BigAddSmall(x.q, 1) ELSE x.q,
     e |-> 0 - x.s]

\* the f64 nearest to D / 10^k
F64Nearest(D, k) ==
    IF D = <<>> THEN [m |-> <<>>, e |-> 0]
    ELSE RoundNearest(Scaled(D, k, Shift53(D, k)))

\* f64::from_str on a slice of digits with at most one '.': an error when
\* it holds no digit, else the nearest f64
F64FromStr(num, point) ==
    [ok |-> SelectSeq(num, IsDigit) # <<>>,
     f  |-> F64Nearest(DigitsValue(num), FracLen(num, point))]

\* round() of a shifted mantissa: half away from zero
Rounded(y) == BigAddSmall(y.q, y.top)

\* F64ScaleRound with 1000.0 in the place of 1024.0
F64ScaleRound1000(f, scale) ==
    BigTimesPow(IF f.e >= 0 THEN BigTimesPow2(f.m, f.e)
                ELSE Rounded(ShiftRight(f.m, 0 - f.e)), 1000, scale)

\* (f * 1024.0f64.powi(scale)).round(), an integer: the product by a power
\* of two only changes the exponent
F64ScaleRound(f, scale) ==
    IF f.e + 10 * scale >= 0 THEN BigTimesPow2(f.m, f.e + 10 * scale)
    ELSE Rounded(ShiftRight(f.m, 0 - (f.e + 10 * scale)))

\* if f >= 2.0f64.powi(64) { return Err(PE::Overflow); } f as u64
AsU64(r) == IF BigLeq(TwoTo64, r) THEN Err("Overflow") ELSE Ok(r)

\* the binary branch after f64::from_str
BinaryResult(p, scale) ==
    IF ~p.ok THEN Err("InvalidNumber") ELSE AsU64(F64ScaleRound(p.f, scale))

\* "Parse a number with a binary prefix"
BinaryBranch(num, point, scale) == BinaryResult(F64FromStr(num, point), scale)

(***************************************************************************)
(* The decimal branch.                                                     *)
(***************************************************************************)

\* Option<u64>
Some(v) == [some |-> TRUE, v |-> v]

NoU64 == [some |-> FALSE, v |-> <<>>]

\* Some(p) when p fits in a u64
CheckU64(p) == IF BigLeq(p, U64Max) THEN Some(p) ELSE NoU64

\* u64::checked_mul: None on overflow
checked_mul(v, m) == CheckU64(BigMulSmall(v, m))

\* u64::checked_add: None on overflow
checked_add(v, c) == CheckU64(BigAddSmall(v, c))

RECURSIVE IntegerDigits(_, _, _, _)
\* "Parse integer digits", at the byte of 0-based index n
IntegerDigits(num, n, idigits, v) ==
    IF n >= Len(num)
    THEN [overflow |-> FALSE, v |-> v, idigits |-> idigits, frac |-> <<>>]
    ELSE IF num[n + 1] = BytePoint THEN IntegerDigits(num, n + 1, idigits, v)
    ELSE IF idigits = 0
    THEN [overflow |-> FALSE, v |-> v, idigits |-> 0, frac |-> SubSeq(num, n + 1, Len(num))]
    ELSE LET v10 == checked_mul(v, 10)
             v1  == IF v10.some THEN checked_add(v10.v, num[n + 1] % 16) ELSE NoU64
         IN  IF ~v1.some
             THEN [overflow |-> TRUE, v |-> v, idigits |-> idigits, frac |-> <<>>]
             ELSE IntegerDigits(num, n + 1, idigits - 1, v1.v)

RECURSIVE PadDigits(_, _)
\* for _ in 0..idigits { v = v.checked_mul(10)? }: None on overflow
PadDigits(v, idigits) ==
    IF idigits = 0 THEN Some(v)
    ELSE LET v10 == checked_mul(v, 10)
         IN  IF v10.some THEN PadDigits(v10.v, idigits - 1) ELSE NoU64

\* round_up taking a 5 followed by anything for a tie
round_up_first_digit(frac, v) ==
    IF frac = <<>> THEN FALSE
    ELSE IF Head(frac) > Byte5 THEN TRUE
    ELSE IF Head(frac) < Byte5 THEN FALSE
    ELSE BigDivMod(v, 2).r # 0

\* "Round to even": whether v is incremented, for the digits frac after the
\* last integer digit
round_up(frac, v) ==
    IF frac = <<>> THEN FALSE
    ELSE IF Head(frac) > Byte5 THEN TRUE
    ELSE IF Head(frac) < Byte5 THEN FALSE
    ELSE IF BigDivMod(v, 2).r # 0 THEN TRUE
    ELSE \E k \in 2..Len(frac) : frac[k] # Byte0

\* match .. { Some(v) => v, None => return Err(PE::Overflow) }
OrOverflow(o) == IF o.some THEN Ok(o.v) ELSE Err("Overflow")

\* RoundToEven incrementing without the check, wrapping to 0
RoundToEvenWrapping(p, frac) ==
    IF ~p.some THEN Err("Overflow")
    ELSE IF round_up(frac, p.v)
    THEN IF p.v = U64Max THEN Ok(<<>>) ELSE Ok(BigAddSmall(p.v, 1))
    ELSE Ok(p.v)

\* the end of the decimal branch, p being v after the second loop
RoundToEven(p, frac) ==
    IF ~p.some THEN Err("Overflow")
    ELSE IF round_up(frac, p.v) THEN OrOverflow(checked_add(p.v, 1))
    ELSE Ok(p.v)

\* the decimal branch after its first loop
AfterDigits(d) ==
    IF d.overflow THEN Err("Overflow")
    ELSE RoundToEven(PadDigits(d.v, d.idigits), d.frac)

\* "Parse with decimal prefix"
DecimalBranch(num, point, scale) ==
    AfterDigits(IntegerDigits(num, 0, (IF point # None THEN point ELSE Len(num)) + 3 * scale, <<>>))

\* fn from_str(src: &str) -> Result<Self, ParseByteSizeError>
from_str(src) ==
    LET s == ScanNumber(src, 0, None)
    IN  IF s.invalid THEN Err("InvalidNumber")
        ELSE LET num == SubSeq(src, 1, s.num_end)
                 u   == ParseUnits(StripB(SkipBlanks(SubSeq(src, s.num_end + 1, Len(src)))))
             IN  IF u.invalid THEN Err("InvalidUnits")
                 ELSE IF u.binary THEN BinaryBranch(num, s.point, u.scale)
                 ELSE DecimalBranch(num, s.point, u.scale)

(***************************************************************************)
(* The inputs.  u64 and the strings are sampled: the sizes by their first  *)
(* four significant digits, their length and their tail, the strings as a  *)
(* number text, blanks, a unit and a final b, as the tests of the crate    *)
(* build theirs; the strings displayed add a blank, a prefix and a B.      *)
(***************************************************************************)

\* every size up to MaxSmall is displayed
MaxSmall == 1100

\* the tails of the sampled sizes end in a digit up to MaxTail
MaxTail == 1

\* the number texts over NumAlphabet have up to MaxNumLen bytes
MaxNumLen == 3

\* up to MaxBlanks spaces or tabs stand between the number and the unit
MaxBlanks == 1

\* the first three significant digits of the sampled sizes
Top3 == {<<1,0,0>>, <<1,0,1>>, <<1,8,4>>, <<1,8,5>>, <<2,3,3>>, <<2,3,4>>,
         <<2,9,9>>, <<5,0,0>>, <<9,5,2>>, <<9,9,8>>, <<9,9,9>>}

\* the z digits after the first four: zeros and a last digit, or nines
Tails(z) ==
    IF z = 0 THEN {<<>>}
    ELSE {[i \in 1..z |-> IF i = z THEN t ELSE 0] : t \in 0..MaxTail}
         \cup {[i \in 1..z |-> 9]}

Sizes ==
    {BigOfInt(x) : x \in 0..MaxSmall}
    \cup {n \in {Big(h \o <<d>> \o t) : h \in Top3, d \in 0..9,
                                        t \in UNION {Tails(z) : z \in 0..16}} :
            BigLeq(n, U64Max)}
    \cup {U64Max, BigSub(U64Max, <<1>>)}

Dot == <<BytePoint>>

NumAlphabet == {Byte0, Byte5, Byte0 + 6, BytePoint}

SysNums == UNION {[1..n -> NumAlphabet] : n \in 0..MaxNumLen}

U64MaxText == Decimal(U64Max)

PickedNums ==
    { <<>>, Dot, Dig(<<0>>), Dig(<<2,3>>), Dig(<<1,0,3>>), Dig(<<1,5>>), Dig(<<1,6>>),
      Dig(<<1>>) \o Dot \o Dig(<<2,0,5>>), Dig(<<1,6>>) \o Dot \o Dig(<<6>>),
      Dig(<<0>>) \o Dot \o Dig(<<0,1,8>>), Dig(<<1>>) \o Dot \o Dig(<<4>>),
      Dig(<<1>>) \o Dot \o Dig(<<5>>), Dig(<<1>>) \o Dot \o Dig(<<9>>),
      Dig(<<2>>) \o Dot \o Dig(<<1>>), Dig(<<2>>) \o Dot \o Dig(<<5,0,0,0>>),
      Dig(<<2>>) \o Dot \o Dig(<<5,0,0,0,1>>), Dig(<<1>>) \o Dot \o Dig(<<2,3,0,6>>),
      Dig(<<1>>) \o Dot \o Dig(<<2,3,0,5>>), Dig(<<1>>) \o Dot \o Dig(<<2,3,1,5>>),
      Dig(<<1,0,3>>) \o Dot \o Dig(<<5>>), Dig(<<5,9,3>>) \o Dot \o Dig(<<2>>),
      Dig(<<1,2>>) \o Dot \o Dig(<<2,5>>),
      Dig(<<1>>) \o Dot \o Dig(<<2>>) \o Dot \o Dig(<<3>>),
      U64MaxText, Decimal(TwoTo64), Decimal(BigSub(U64Max, <<1>>)) \o Dot \o Dig(<<5>>),
      U64MaxText \o Dot \o Dig(<<5>>), U64MaxText \o Dot \o Dig(<<4,9>>),
      Dig(<<1,8>>) \o Dot \o Dig(<<4,4,6,7,4,4,0,7,3,7,0,9,5,5,1,6,1,5>>),
      Dig(<<1,8>>) \o Dot \o Dig(<<4,4,6,7,4,4,0,7,3,7,0,9,5,5,1,6,1,6>>),
      Dig(<<1,8>>) \o Dot \o Dig(<<4,4,6,7,4,4,0,7,3,7,0,9,5,5,1,6,1,5,4>>),
      Dig(<<1,8>>) \o Dot \o Dig(<<4,4,6,7,4,4,0,7,3,7,0,9,5,5,1,6,1,5,5>>),
      Dig([i \in 1..24 |-> 0]) \o Dig(<<1>>),
      Dig(<<9,0,0,7,1,9,9,2,5,4,7,4,0,9,9,2>>), Dig(<<9,0,0,7,1,9,9,2,5,4,7,4,0,9,9,3>>) }

\* k, m, g, t, p, e, z, y
PrefixLetters ==
    {Byte_K + 32, Byte_M + 32, Byte_G + 32, Byte_T + 32, Byte_P + 32, Byte_E + 32,
     Byte_Z + 32, Byte_Y + 32}

\* a prefix letter optionally followed by i, or no unit at all
Units == {<<>>} \cup {<<c>> : c \in PrefixLetters} \cup {<<c, Byte_i>> : c \in PrefixLetters}

\* make_ascii_uppercase
Upper(t) == [i \in 1..Len(t) |-> IF 97 <= t[i] /\ t[i] <= 122 THEN t[i] - 32 ELSE t[i]]

\* suffixes outside the grammar: q, qi, i, kk, kix, kx, "k ", b
BadUnits ==
    {<<113>>, <<113, Byte_i>>, <<Byte_i>>, <<Byte_K + 32, Byte_K + 32>>,
     <<Byte_K + 32, Byte_i, 120>>, <<Byte_K + 32, 120>>, <<Byte_K + 32, ByteSpace>>,
     <<Byte_b>>}

Blanks == UNION {[1..n -> {ByteSpace, ByteTab}] : n \in 0..MaxBlanks}

FinalB == {<<>>, <<Byte_b>>, <<Byte_B>>}

\* the units of the grammar in either case, and the suffixes outside it
AllUnits == Units \cup {Upper(u) : u \in Units} \cup BadUnits

Inputs ==
    [num : SysNums, blanks : {<<>>}, unit : Units, b : {<<>>}]
    \cup [num : PickedNums, blanks : Blanks, unit : AllUnits, b : {<<>>}]
    \cup [num : PickedNums, blanks : {<<>>}, unit : AllUnits, b : FinalB]

\* the string of an input
Join(t) == t.num \o t.blanks \o t.unit \o t.b

(***************************************************************************)
(* The state machine: a ByteSize is displayed, a string is parsed, or the  *)
(* string displayed is parsed back.                                        *)
(***************************************************************************)

VARIABLES op, size, loop, out, input, src, res

vars == <<op, size, loop, out, input, src, res>>

NoLoop == [units |-> 0, millis |-> 0, prefix |-> 0, is_exact |-> TRUE]

NoOut == [panic |-> FALSE, idx |-> -1, text |-> <<>>]

NoInput == [num |-> <<>>, blanks |-> <<>>, unit |-> <<>>, b |-> <<>>]

NoRes == [kind |-> "None", val |-> <<>>]

Init ==
    /\ op = "new"
    /\ size = <<>>
    /\ loop = NoLoop
    /\ out = NoOut
    /\ input = NoInput
    /\ src = <<>>
    /\ res = NoRes

\* ByteSize(n).to_string(), through Display
Display ==
    /\ op = "new"
    /\ \E n \in Sizes :
          /\ size' = n
          /\ loop' = IF BigLess(n, <<1000>>) THEN NoLoop ELSE DivLoop(n)
          /\ out' = fmt(n)
    /\ op' = "to_string"
    /\ UNCHANGED <<input, src, res>>

\* ByteSize::from_str(s)
FromStr ==
    /\ op = "new"
    /\ \E t \in Inputs :
          /\ input' = t
          /\ src' = Join(t)
          /\ res' = from_str(Join(t))
    /\ op' = "from_str"
    /\ UNCHANGED <<size, loop, out>>

\* ByteSize::from_str(&ByteSize(n).to_string())
RoundTrip ==
    /\ op = "to_string"
    /\ ~out.panic
    /\ src' = out.text
    /\ res' = from_str(out.text)
    /\ op' = "round_trip"
    /\ UNCHANGED <<size, loop, out, input>>

Next == Display \/ FromStr \/ RoundTrip

Spec == Init /\ [][Next]_vars

(***************************************************************************)
(* Reference values of the properties, computed from the decimal digits of *)
(* the size or of the number text, independently of the code's loops.      *)
(***************************************************************************)

\* a * 10^k
BigTimesPow10(a, k) == BigTimesPow(a, 10, k)

\* |a - b|
AbsDiff(a, b) == IF BigLeq(a, b) THEN BigSub(b, a) ELSE BigSub(a, b)

\* n >= 1000 rounded to 3 significant digits, half to even on the exact
\* value: head the three digits (100..999 after a carry), len the number of
\* digits of the rounded value
RefRound(n) ==
    LET ds   == ToDigits(n)
        head == 100 * ds[1] + 10 * ds[2] + ds[3]
        rest == \E i \in 5..Len(ds) : ds[i] # 0
        up   == ds[4] > 5 \/ (ds[4] = 5 /\ (rest \/ head % 2 = 1))
        h    == IF up THEN head + 1 ELSE head
    IN  IF h = 1000 THEN [head |-> 100, len |-> Len(ds) + 1]
        ELSE [head |-> h, len |-> Len(ds)]

\* the prefix letters in the order of the powers of 1000: k M G T P E
RefLetters == <<107, 77, 71, 84, 80, 69>>

\* the reference rendering of n
RefRender(n) ==
    IF BigLess(n, <<1000>>) THEN Decimal(n) \o <<32, 66>>
    ELSE LET r  == RefRound(n)
             d  == Dig(ToDigits(<<r.head>>))
             p  == (r.len - 1) \div 3
             f  == (r.len - 1) % 3
             m  == IF f = 0 THEN <<d[1], 46, d[2], d[3]>>
                   ELSE IF f = 1 THEN <<d[1], d[2], 46, d[3]>>
                   ELSE d
         IN  m \o <<32, RefLetters[p], 66>>

\* the exact value of the 3-significant-digit number displayed for n >= 1000
RefShown(n) == BigTimesPow10(<<RefRound(n).head>>, RefRound(n).len - 3)

\* one unit of the last digit displayed for n >= 1000
RefUnit(n) == BigTimesPow10(<<1>>, RefRound(n).len - 3)

\* a number text: digits with at most one decimal point, and a digit at least
WellFormed(num) ==
    /\ \A i \in 1..Len(num) : IsDigit(num[i]) \/ num[i] = 46
    /\ Cardinality({i \in 1..Len(num) : num[i] = 46}) <= 1
    /\ \E i \in 1..Len(num) : IsDigit(num[i])

\* the number of digits of num after its decimal point
RefFracLen(num) ==
    IF \E i \in 1..Len(num) : num[i] = 46
    THEN Len(num) - (CHOOSE i \in 1..Len(num) : num[i] = 46)
    ELSE 0

\* the digits of num as a natural: num * 10^RefFracLen(num)
RefDigits(num) ==
    LET ds == SelectSeq(num, IsDigit) IN Big([i \in 1..Len(ds) |-> ds[i] - 48])

\* the scale of a prefix letter of either case: K 1, M 2, G 3, T 4, P 5, E 6,
\* Z 7, Y 8
RefScale(c) ==
    CHOOSE s \in 1..8 : <<75, 77, 71, 84, 80, 69, 90, 89>>[s] \in {c, c - 32}

\* the prefix letters of the grammar, in either case
RefPrefixes ==
    {107, 109, 103, 116, 112, 101, 122, 121, 75, 77, 71, 84, 80, 69, 90, 89}

\* the units of the grammar in decimal mode, with their scale
RefDecimalScale ==
    [u \in {<<>>} \cup {<<c>> : c \in RefPrefixes} |->
        IF u = <<>> THEN 0 ELSE RefScale(u[1])]

\* the units of the grammar in binary mode, with their scale
RefBinaryScale ==
    [u \in {<<c, i>> : c \in RefPrefixes, i \in {105, 73}} |-> RefScale(u[1])]

\* num * 1000^s rounded to the nearest integer, ties to even
RefDecimal(num, s) ==
    LET x  == DivPow(BigTimesPow10(RefDigits(num), 3 * s), 10, RefFracLen(num), 0, FALSE)
        up == x.top > 5 \/ (x.top = 5 /\ (x.sticky \/ BigDivMod(x.q, 2).r = 1))
    IN  IF up THEN BigAddSmall(x.q, 1) ELSE x.q

RECURSIVE OddPart(_)
\* a > 0 without its trailing zero bits
OddPart(a) ==
    IF BigDivMod(a, 1024).r = 0 THEN OddPart(BigDivMod(a, 1024).q)
    ELSE IF BigDivMod(a, 2).r = 0 THEN OddPart(BigDivMod(a, 2).q)
    ELSE a

\* num * 1024^s: exact tells whether it is an integer, q is its integer part
RefBinary(num, s) ==
    LET x == DivPow(BigTimesPow2(RefDigits(num), 10 * s), 10, RefFracLen(num), 0, FALSE)
    IN  [q |-> x.q, exact |-> x.top = 0 /\ ~x.sticky]

\* an integer that 53 bits of mantissa hold exactly
Fits53(a) == a = <<>> \/ BigLess(OddPart(a), TwoTo53)

\* the suffix of the input: what follows its number text
Suffix(t) == t.blanks \o t.unit \o t.b

\* the formatter ran on size
Displayed == op \in {"to_string", "round_trip"}

(***************************************************************************)
(* The properties.                                                         *)
(***************************************************************************)

\* C1: for every size n displayed, the output is the reference rendering:
\* "{n} B" below 1000, else n rounded half to even to 3 significant digits
\* (a tie only when every discarded digit is zero), in the form d.dd, dd.d or
\* ddd chosen by the rounded value, followed by a blank, the prefix and B.
C1_DisplayIsReference ==
    Displayed => ~out.panic /\ out.text = RefRender(size)

\* C1 witness: 999500 was displayed as "1.00 MB": the tie broke up to the
\* even 1000, and the carry moved to the next prefix.
C1_Witness ==
    /\ op = "to_string"
    /\ size = <<999500>>
    /\ out.text = <<49, 46, 48, 48, 32, 77, 66>>

\* C2: in decimal mode, when from_str returns Ok(v) for a well-formed number
\* text and a unit of scale s in 0..8, v is number * 1000^s rounded to the
\* nearest integer, ties to even.
C2_DecimalIsNearestEven ==
    (/\ op = "from_str"
     /\ WellFormed(input.num)
     /\ input.unit \in DOMAIN RefDecimalScale
     /\ res.kind = "Ok")
    => res.val = RefDecimal(input.num, RefDecimalScale[input.unit])

\* C2 witness: "1.2305k" was parsed to 1230, a tie broken to even after the
\* scale moved the decimal point.
C2_Witness ==
    /\ op = "from_str"
    /\ src = <<49, 46, 50, 51, 48, 53, 107>>
    /\ res = Ok(<<1230>>)

\* C3: for a well-formed number text and a suffix the unit parser takes for a
\* decimal unit, from_str returns Overflow exactly when number * 1000^scale
\* rounded half to even exceeds 2^64 - 1, and Ok otherwise.
C3_DecimalOverflowExact ==
    (/\ op = "from_str"
     /\ WellFormed(input.num)
     /\ input.unit \in DOMAIN RefDecimalScale
     /\ (input.blanks = <<>> \/ input.unit \o input.b # <<>>))
    => /\ res.kind \in {"Ok", "Overflow"}
       /\ res.kind = "Overflow"
            <=> BigLess(U64Max, RefDecimal(input.num, RefDecimalScale[input.unit]))

\* C3 witness: "18446744073709551615.5" was parsed to Overflow: the digits
\* fit, the increment of the rounding does not.
C3_Witness ==
    /\ op = "from_str"
    /\ src = U64MaxText \o <<46, 53>>
    /\ res.kind = "Overflow"

\* C4: parsing the empty string returns the Empty error.
C4_EmptyStringIsEmptyError ==
    (op = "from_str" /\ src = <<>>) => res.kind = "Empty"

\* C4 witness: the empty string was parsed, and the result is Ok(0).
C4_Witness ==
    op = "from_str" /\ src = <<>> /\ res = Ok(<<>>)

\* C5: parsing back what was displayed for n never fails; the value m is the
\* exact value of the number displayed: n itself below 1000, else the
\* 3-significant-digit value, within half a unit of its last digit from n.
C5_RoundTrip ==
    op = "round_trip"
    => /\ res.kind = "Ok"
       /\ IF BigLess(size, <<1000>>) THEN res.val = size
          ELSE /\ res.val = RefShown(size)
               /\ BigLeq(BigMulSmall(AbsDiff(res.val, size), 2), RefUnit(size))

\* C5 witness: u64::MAX was displayed and parsed back to 18.4 * 10^18.
C5_Witness ==
    /\ op = "round_trip"
    /\ size = U64Max
    /\ res = Ok(BigTimesPow10(<<184>>, 17))

\* C6: for every number text and every unit of a prefix letter optionally
\* followed by i (or no unit), from_str gives the same result for
\* number+unit, number+unit+"b", the upper-cased number+unit followed by "B"
\* and, when the unit is not empty, number+blanks+unit.
C6_SuffixFlexibility ==
    (op = "from_str" /\ input.unit \in Units /\ input.blanks = <<>> /\ input.b = <<>>)
    => /\ from_str(input.num \o input.unit \o <<98>>) = res
       /\ from_str(Upper(input.num \o input.unit) \o <<66>>) = res
       /\ input.unit # <<>>
            => \A w \in Blanks : from_str(input.num \o w \o input.unit) = res

\* C6 witness: "6.5ki" was parsed to 6656, as "6.5 KIB" is.
C6_Witness ==
    /\ op = "from_str"
    /\ src = <<54, 46, 53, 107, 105>>
    /\ res = Ok(<<6656>>)
    /\ from_str(<<54, 46, 53, 32, 75, 73, 66>>) = res

\* C7: a number text followed only by spaces or tabs parses to the same
\* result as the number text alone.
C7_BlankSuffixIsNoUnit ==
    (/\ op = "from_str"
     /\ WellFormed(input.num)
     /\ input.unit = <<>>
     /\ input.b = <<>>)
    => res = from_str(input.num)

\* C7 witness: "1.5 " was parsed to InvalidUnits, "1.5" alone parses to 2.
C7_Witness ==
    /\ op = "from_str"
    /\ src = <<49, 46, 53, 32>>
    /\ res.kind = "InvalidUnits"
    /\ from_str(<<49, 46, 53>>) = Ok(<<2>>)

\* the number text is rejected as InvalidNumber with a unit of the grammar
\* after it: "k" or "ki"
NumberRejected(num) ==
    \E u \in {<<107>>, <<107, 105>>} : from_str(num \o u).kind = "InvalidNumber"

\* the suffix holds a byte that is no blank, and is rejected as InvalidUnits
\* after a number
SuffixRejected(sfx) ==
    /\ \E i \in 1..Len(sfx) : NotBlank(sfx[i])
    /\ from_str(<<49>> \o sfx).kind = "InvalidUnits"

\* C8: the errors are reported in the order InvalidNumber, InvalidUnits,
\* Overflow: an input whose number text is rejected with a unit of the
\* grammar after it, and whose suffix is rejected too, yields InvalidNumber.
C8_InvalidNumberFirst ==
    (/\ op = "from_str"
     /\ NumberRejected(input.num)
     /\ SuffixRejected(Suffix(input)))
    => res.kind = "InvalidNumber"

\* C8 witness: ".qi" was parsed to InvalidUnits, ".ki" parses to
\* InvalidNumber and "1qi" to InvalidUnits.
C8_Witness ==
    /\ op = "from_str"
    /\ src = <<46, 113, 105>>
    /\ res.kind = "InvalidUnits"
    /\ from_str(<<46, 107, 105>>).kind = "InvalidNumber"
    /\ from_str(<<49, 113, 105>>).kind = "InvalidUnits"

\* C9: in binary mode, for a well-formed number text whose product with
\* 1024^scale is an integer that 53 bits hold exactly, from_str returns that
\* product when it is below 2^64 and Overflow when it is not.
C9_BinaryExact ==
    (/\ op = "from_str"
     /\ WellFormed(input.num)
     /\ input.unit \in DOMAIN RefBinaryScale
     /\ RefBinary(input.num, RefBinaryScale[input.unit]).exact
     /\ Fits53(RefBinary(input.num, RefBinaryScale[input.unit]).q))
    => res = IF BigLess(RefBinary(input.num, RefBinaryScale[input.unit]).q, TwoTo64)
             THEN Ok(RefBinary(input.num, RefBinaryScale[input.unit]).q)
             ELSE Err("Overflow")

\* C9 witness: "12.25pi" was parsed to 12 * 1024^5 + 1024^5 / 4.
C9_Witness ==
    /\ op = "from_str"
    /\ src = <<49, 50, 46, 50, 53, 112, 105>>
    /\ res = Ok(Big(<<1,3,7,9,2,2,7,3,8,5,8,8,2,2,1,4,4>>))

\* C10: the formatter never indexes PREFIXES out of bounds: after the loop
\* 1 <= units < 1000, 0 <= millis < 1000 and prefix is in 0..5; the index
\* used is in 0..5; the index prefix + 1 is used only when prefix <= 4, and
\* at prefix 5 units is at most 18.
C10_PrefixIndexInBounds ==
    Displayed
    => /\ ~out.panic
       /\ BigLeq(<<1000>>, size)
            => /\ 1 <= loop.units /\ loop.units < 1000
               /\ 0 <= loop.millis /\ loop.millis < 1000
               /\ loop.prefix \in 0..5
               /\ out.idx \in {loop.prefix, loop.prefix + 1}
               /\ out.idx \in 0..(Len(PREFIXES) - 1)
               /\ out.idx = loop.prefix + 1 => loop.prefix <= 4
               /\ loop.prefix = 5 => loop.units <= 18

\* C10 witness: 999.5 * 10^15 was displayed with the index prefix + 1 = 5,
\* the last of the table.
C10_Witness ==
    /\ op = "to_string"
    /\ loop.units = 999
    /\ loop.prefix = 4
    /\ out.idx = 5
    /\ ~out.panic

====
